---- MODULE Spec2Model ----
(***************************************************************************)
(* bitshare mockup servers: mockup/server.py (BitShareHandler + main) and  *)
(* mockup/simple-server.py (start_server + __main__).                      *)
(*                                                                         *)
(* One process runs one of the two scripts.  The environment supplies the  *)
(* platform (which decides the errno of "address already in use"), the     *)
(* directory the process is launched from, the files on disk, the ports    *)
(* other processes hold, the outcome of every bind, the outcome of the     *)
(* browser launch, the requests and the interrupt signal.                  *)
(***************************************************************************)
EXTENDS Integers, Sequences, FiniteSets

VARIABLES
    script,      \* "server" (server.py) or "simple" (simple-server.py)
    platform,    \* operating system: decides errno.EADDRINUSE
    cwd,         \* current working directory of the process
    fs,          \* fs[dir][name] \in {"absent", "file", "dir"}
    pc,          \* position of the process in its script
    port,        \* the port being tried (loop variable of simple-server.py)
    attempts,    \* binds made so far: <<[port, errno]>>, errno 0 = success
    listening,   \* port of the open listening socket, 0 when none
    launch,      \* outcome of webbrowser.open: "none" before the call
    sigint,      \* positions at which an interrupt was delivered
    out,         \* lines printed on the console
    exitStatus,  \* -1 while running
    served,      \* requests handled so far
    lastReq,     \* the last request handled
    resp         \* the response sent for it

vars == <<script, platform, cwd, fs, pc, port, attempts, listening,
          launch, sigint, out, exitStatus, served, lastReq, resp>>

----------------------------------------------------------------------------
(* Bounds and program constants *)

MaxRequests == 2
\* binds the environment may fail for a reason other than "address in use"
MaxBindFaults == 1

\* server.py: PORT = 8000
PORT == 8000
\* simple-server.py: for port in range(8000, 8010)
RangeStart == 8000
RangeStop == 8010

Ports == RangeStart .. (RangeStop - 1)

Platforms == {"darwin", "linux", "windows"}

\* errno.EADDRINUSE as the operating system reports it
EADDRINUSE(os) ==
    CASE os = "darwin"  -> 48
      [] os = "linux"   -> 98
      [] os = "windows" -> 10048

\* a bind error that is not "address already in use" (EACCES)
EACCES == 13

\* the errno main() of server.py compares with
PortInUseErrno == 48

----------------------------------------------------------------------------
(* The filesystem: two directories, the script's own and another one the   *)
(* process may be launched from; one level of entries.                     *)

Dirs == {"root", "other"}
Names == {"index.html", "a.txt", "sub"}
FileNames == {"index.html", "a.txt"}
DirNames == {"sub"}

DirStates ==
    { [n \in Names |-> IF n \in f \cup d THEN (IF n \in d THEN "dir" ELSE "file")
                       ELSE "absent"] :
        f \in SUBSET FileNames, d \in SUBSET DirNames }

EmptyDir == [n \in Names |-> "absent"]

\* request paths, as token sequences: "/" separates, "?v" starts a query
Paths ==
    { <<"/">>,
      <<"/", "index.html">>,
      <<"/", "a.txt">>,
      <<"/", "a.txt", "?v">>,
      <<"/", "sub", "/">>,
      <<"/", "nofile">> }

Methods == {"GET", "POST"}

NoReq == [method |-> "", path |-> <<>>]
NoResp == [status |-> 0, headers |-> {}, kind |-> "", dir |-> "", name |-> "",
           delegated |-> FALSE]

----------------------------------------------------------------------------
(* Path handling *)

RECURSIVE lstrip(_)
\* str.lstrip('/'): drop every leading "/"
lstrip(s) == IF s # <<>> /\ Head(s) = "/" THEN lstrip(Tail(s)) ELSE s

RECURSIVE SplitAcc(_, _, _)
SplitAcc(s, cur, acc) ==
    IF s = <<>> THEN Append(acc, cur)
    ELSE IF Head(s) = "/" THEN SplitAcc(Tail(s), <<>>, Append(acc, cur))
    ELSE SplitAcc(Tail(s), Append(cur, Head(s)), acc)

\* str.split('/'): the components between separators, empty ones included
Split(s) == SplitAcc(s, <<>>, <<>>)

RECURSIVE StripQuery(_)
\* the path up to the first "?"
StripQuery(s) ==
    IF s = <<>> \/ Head(s) = "?v" THEN <<>>
    ELSE <<Head(s)>> \o StripQuery(Tail(s))

NonEmpty(c) == c # <<>>

\* the kind of the entry a single path component names in directory d; a
\* component that is not exactly one known name ("a.txt?v") names nothing
EntryKind(d, comp) ==
    IF Len(comp) = 1 /\ comp[1] \in Names THEN fs[d][comp[1]] ELSE "absent"

\* what the operating system finds at the components comps below directory d
\* (trailing: the path ends with a separator, so it must be a directory)
Lookup(d, comps, trailing) ==
    IF comps = <<>> THEN "dir"
    ELSE IF Len(comps) > 1 THEN "absent"
    ELSE LET k == EntryKind(d, comps[1])
         IN  IF trailing /\ k # "dir" THEN "absent" ELSE k

\* os.path.exists(rel): rel is resolved against the current working directory
exists(rel) ==
    IF rel = <<>> THEN FALSE
    ELSE LET parts == Split(rel)
         IN  Lookup(cwd, SelectSeq(parts, NonEmpty),
                    Len(parts) > 1 /\ parts[Len(parts)] = <<>>) # "absent"

\* SimpleHTTPRequestHandler.translate_path: the query is dropped, empty
\* components are dropped, the rest is joined to the handler's directory
translate_path(path) ==
    LET p == StripQuery(path)
        parts == Split(p)
    IN  [comps |-> SelectSeq(parts, NonEmpty),
         trailing |-> p # <<>> /\ p[Len(p)] = "/"]

----------------------------------------------------------------------------
(* Responses *)

SecurityHeaders ==
    {"X-Frame-Options: DENY", "X-Content-Type-Options: nosniff",
     "Referrer-Policy: no-referrer"}

\* end_headers of the handler class h: BitShareHandler adds the three
\* security headers and calls the base class; the base class adds nothing
end_headers(h, hdrs) ==
    IF h = "BitShareHandler" THEN hdrs \cup SecurityHeaders ELSE hdrs

\* send_error(code, message): an error page, finished by end_headers
send_error(h, code, message, viaBase) ==
    [status |-> code, headers |-> end_headers(h, {"Content-Type", "Content-Length"}),
     kind |-> "error", dir |-> "", name |-> message, delegated |-> viaBase]

\* a 200 response with the content of a file / the listing of a directory
send_file(h, d, n) ==
    [status |-> 200, headers |-> end_headers(h, {"Content-Type", "Content-Length"}),
     kind |-> "file", dir |-> d, name |-> n, delegated |-> TRUE]

list_directory(h, d, n) ==
    [status |-> 200, headers |-> end_headers(h, {"Content-Type", "Content-Length"}),
     kind |-> "listing", dir |-> d, name |-> n, delegated |-> TRUE]

redirect(h, d, n) ==
    [status |-> 301, headers |-> end_headers(h, {"Location", "Content-Length"}),
     kind |-> "redirect", dir |-> d, name |-> n, delegated |-> TRUE]

\* SimpleHTTPRequestHandler.do_GET: the static-file responder, serving from
\* `directory`
SimpleHTTPRequestHandler_do_GET(h, path, directory) ==
    LET t == translate_path(path)
        k == Lookup(directory, t.comps, FALSE)
    IN  IF k = "dir" THEN
            IF ~t.trailing THEN redirect(h, directory, t.comps[1][1])
            ELSE IF t.comps = <<>> /\ fs[directory]["index.html"] = "file"
                 THEN send_file(h, directory, "index.html")
            ELSE list_directory(h, directory,
                                IF t.comps = <<>> THEN "" ELSE t.comps[1][1])
        ELSE IF k = "file" /\ ~t.trailing
             THEN send_file(h, directory, t.comps[1][1])
        ELSE send_error(h, 404, "File not found", TRUE)

\* BitShareHandler.do_GET
BitShareHandler_do_GET(path) ==
    LET p == IF path = <<"/">> THEN <<"/", "index.html">> ELSE path
    IN  IF ~exists(lstrip(p))
        THEN send_error("BitShareHandler", 404, "File not found", FALSE)
        ELSE SimpleHTTPRequestHandler_do_GET("BitShareHandler", p, "root")

\* the handler class each script passes to TCPServer
HandlerClass == IF script = "server" THEN "BitShareHandler"
                ELSE "SimpleHTTPRequestHandler"

\* one request: do_GET of the handler class, 501 for a method it lacks
handle(req) ==
    IF req.method # "GET"
    THEN send_error(HandlerClass, 501, "Unsupported method", FALSE)
    ELSE IF script = "server" THEN BitShareHandler_do_GET(req.path)
    ELSE SimpleHTTPRequestHandler_do_GET("SimpleHTTPRequestHandler", req.path, cwd)

----------------------------------------------------------------------------
(* Console output *)

Line(m, p, e) == [msg |-> m, port |-> p, errno |-> e]

\* server.py: the printout between the bind and the browser launch
ServerBannerLines ==
    << Line("bitshare mockup server starting...", 0, 0),
       Line("Server running at: http://localhost:{PORT}", PORT, 0),
       Line("Open in browser: http://localhost:{PORT}", PORT, 0),
       Line("Press Ctrl+C to stop the server", 0, 0),
       Line("Features", 0, 0) >>

BrowserOpenedLine == Line("Browser opened automatically", 0, 0)
ManualOpenLine == Line("Please manually open http://localhost:8000 in your browser", 8000, 0)
DemoInstructionsLine == Line("Demo Instructions", 0, 0)
ServerStoppedLine == Line("Server stopped", 0, 0)
NoPortsLine == Line("No available ports found", 0, 0)

\* simple-server.py: the printout after a successful bind
SimpleBannerLines(p) ==
    << Line("bitshare mockup server running at: http://localhost:{port}", p, 0),
       Line("Open this URL in your browser: http://localhost:{port}", p, 0),
       Line("Press Ctrl+C to stop", 0, 0) >>

\* server.py: except OSError as e
OSErrorLines(e) ==
    IF e = PortInUseErrno
    THEN << Line("Port {PORT} is already in use", PORT, 0),
            Line("Try: lsof -ti:{PORT} | xargs kill", PORT, 0),
            Line("Or use a different port: python server.py --port XXXX", 0, 0) >>
    ELSE << Line("Error starting server: {e}", 0, e) >>

Range(s) == {s[i] : i \in DOMAIN s}

\* the binds that failed although no other process held the port
BindFaults == {i \in DOMAIN attempts : attempts[i].errno = EACCES}

\* the result of TCPServer(("", p), ...): the errno raised, 0 when it binds.
\* The operating system answers when the call is made: the port is held by
\* another process ("address already in use"), or it is free and the bind
\* succeeds, or it is free and the bind fails for another reason.
BindResults ==
    {0, EADDRINUSE(platform)}
        \cup (IF Cardinality(BindFaults) < MaxBindFaults THEN {EACCES} ELSE {})

\* the ports found held by another process
inUse == {a.port : a \in {b \in Range(attempts) : b.errno = EADDRINUSE(platform)}}

\* what webbrowser.open can do: return True, return False, raise
LaunchResults == {"true", "false", "raised"}

----------------------------------------------------------------------------
(* Initial states *)

\* server.py serves its own directory from wherever it is launched, and
\* reads the errno of a failed bind.  simple-server.py changes to its own
\* directory first and never reads the errno: one platform and an empty
\* launch directory stand for all.
Init ==
    /\ script \in {"server", "simple"}
    /\ cwd \in Dirs
    /\ IF script = "server"
       THEN /\ platform \in Platforms
            /\ fs \in [Dirs -> DirStates]
       ELSE /\ platform = "linux"
            /\ \E r \in DirStates : fs = [d \in Dirs |-> IF d = "root" THEN r ELSE EmptyDir]
    /\ pc = IF script = "server" THEN "bind" ELSE "chdir"
    /\ port = RangeStart
    /\ attempts = <<>>
    /\ listening = 0
    /\ launch = "none"
    /\ sigint = {}
    /\ out = <<>>
    /\ exitStatus = -1
    /\ served = 0
    /\ lastReq = NoReq
    /\ resp = NoResp

----------------------------------------------------------------------------
(* server.py: main *)

\* with socketserver.TCPServer(("", PORT), BitShareHandler) as httpd
ServerBind ==
    /\ script = "server" /\ pc = "bind"
    /\ \E e \in BindResults :
        /\ attempts' = Append(attempts, [port |-> PORT, errno |-> e])
        /\ IF e = 0
           THEN /\ listening' = PORT
                /\ pc' = "banner"
                /\ UNCHANGED <<out, exitStatus>>
           ELSE /\ out' = out \o OSErrorLines(e)
                /\ exitStatus' = 1
                /\ pc' = "exited"
                /\ UNCHANGED listening
    /\ UNCHANGED <<script, platform, cwd, fs, port, launch, sigint,
                   served, lastReq, resp>>

ServerBanner ==
    /\ script = "server" /\ pc = "banner"
    /\ out' = out \o ServerBannerLines
    /\ pc' = "browser"
    /\ UNCHANGED <<script, platform, cwd, fs, port, attempts, listening,
                   launch, sigint, exitStatus, served, lastReq, resp>>

\* what server.py prints after webbrowser.open ended with result r
ServerLaunchLine(r) == IF r = "raised" THEN ManualOpenLine ELSE BrowserOpenedLine

\* try: webbrowser.open(...); print(opened)  except: print(manual)
ServerBrowser ==
    /\ script = "server" /\ pc = "browser"
    /\ \E r \in LaunchResults :
        /\ launch' = r
        /\ out' = Append(out, ServerLaunchLine(r))
    /\ pc' = "instructions"
    /\ UNCHANGED <<script, platform, cwd, fs, port, attempts, listening,
                   sigint, exitStatus, served, lastReq, resp>>

ServerInstructions ==
    /\ script = "server" /\ pc = "instructions"
    /\ out' = Append(out, DemoInstructionsLine)
    /\ pc' = "serve"
    /\ UNCHANGED <<script, platform, cwd, fs, port, attempts, listening,
                   launch, sigint, exitStatus, served, lastReq, resp>>

----------------------------------------------------------------------------
(* simple-server.py: start_server *)

\* os.chdir(os.path.dirname(os.path.abspath(__file__)))
SimpleChdir ==
    /\ script = "simple" /\ pc = "chdir"
    /\ cwd' = "root"
    /\ pc' = "bind"
    /\ UNCHANGED <<script, platform, fs, port, attempts, listening,
                   launch, sigint, out, exitStatus, served, lastReq, resp>>

\* a scan that steps over every other port
NextPortSkipping(p) == p + 2

\* the loop's next candidate
NextPort(p) == p + 1

\* one iteration of for port in range(8000, 8010): try the bind; any OSError
\* is answered with continue
SimpleBind ==
    /\ script = "simple" /\ pc = "bind" /\ port < RangeStop
    /\ \E e \in BindResults :
        /\ attempts' = Append(attempts, [port |-> port, errno |-> e])
        /\ IF e = 0
           THEN /\ listening' = port
                /\ pc' = "banner"
                /\ UNCHANGED <<port, out, exitStatus>>
           ELSE /\ port' = NextPort(port)
                /\ UNCHANGED <<listening, pc, out, exitStatus>>
    /\ UNCHANGED <<script, platform, cwd, fs, launch, sigint,
                   served, lastReq, resp>>

\* status sys.exit is given once the range is exhausted
ExhaustedStatus == 1

\* the range is exhausted: print("No available ports found"); sys.exit(1)
SimpleExhausted ==
    /\ script = "simple" /\ pc = "bind" /\ port >= RangeStop
    /\ out' = Append(out, NoPortsLine)
    /\ exitStatus' = ExhaustedStatus
    /\ pc' = "exited"
    /\ UNCHANGED <<script, platform, cwd, fs, port, attempts, listening,
                   launch, sigint, served, lastReq, resp>>

SimpleBanner ==
    /\ script = "simple" /\ pc = "banner"
    /\ out' = out \o SimpleBannerLines(port)
    /\ pc' = "browser"
    /\ UNCHANGED <<script, platform, cwd, fs, port, attempts, listening,
                   launch, sigint, exitStatus, served, lastReq, resp>>

\* try: webbrowser.open(...)  except: pass
SimpleBrowser ==
    /\ script = "simple" /\ pc = "browser"
    /\ \E r \in LaunchResults : launch' = r
    /\ pc' = "serve"
    /\ UNCHANGED <<script, platform, cwd, fs, port, attempts, listening,
                   sigint, out, exitStatus, served, lastReq, resp>>

----------------------------------------------------------------------------
(* both scripts *)

\* httpd.serve_forever(): one request is accepted and answered
Serve ==
    /\ pc = "serve" /\ served < MaxRequests
    /\ \E m \in Methods, p \in Paths :
        LET req == [method |-> m, path |-> p]
        IN  /\ lastReq' = req
            /\ resp' = handle(req)
    /\ served' = served + 1
    /\ UNCHANGED <<script, platform, cwd, fs, pc, port, attempts,
                   listening, launch, sigint, out, exitStatus>>

\* does the code around position at catch a KeyboardInterrupt raised there?
\* (the bare except: around webbrowser.open)
SwallowsInterrupt(at) == at = "browser"

\* the interrupt signal: KeyboardInterrupt is raised where the process is
KeyboardInterrupt ==
    /\ pc # "exited"
    /\ sigint' = sigint \cup {pc}
    /\ IF SwallowsInterrupt(pc)
       THEN /\ launch' = "interrupted"
            /\ IF script = "server"
               THEN /\ out' = Append(out, ManualOpenLine)
                    /\ pc' = "instructions"
               ELSE /\ pc' = "serve"
                    /\ UNCHANGED out
            /\ UNCHANGED <<listening, exitStatus>>
       ELSE /\ listening' = 0
            /\ out' = Append(out, ServerStoppedLine)
            /\ exitStatus' = 0
            /\ pc' = "exited"
            /\ UNCHANGED launch
    /\ UNCHANGED <<script, platform, cwd, fs, port, attempts,
                   served, lastReq, resp>>

Next ==
    \/ ServerBind
    \/ ServerBanner
    \/ ServerBrowser
    \/ ServerInstructions
    \/ SimpleChdir
    \/ SimpleBind
    \/ SimpleExhausted
    \/ SimpleBanner
    \/ SimpleBrowser
    \/ Serve
    \/ KeyboardInterrupt

Spec == Init /\ [][Next]_vars

----------------------------------------------------------------------------
(* Properties *)

Printed(l) == l \in Range(out)

\* positions at which the listening socket is bound
BoundPositions == {"banner", "browser", "instructions", "serve"}

\* the file under the root a request path stands for ("/" stands for
\* "/index.html"), "" when it stands for none
RootFileOf(path) ==
    LET p == IF path = <<"/">> THEN <<"/", "index.html">> ELSE path
        t == translate_path(p)
    IN  IF Lookup("root", t.comps, t.trailing) = "file" THEN t.comps[1][1] ELSE ""

IsContentOf(r, n) ==
    r.status = 200 /\ r.kind = "file" /\ r.dir = "root" /\ r.name = n

IsNotFound(r) == r.status = 404 /\ r.kind = "error" /\ r.name = "File not found"

\* C1: every response either script sends carries the three security headers
C1_SecurityHeadersOnEveryResponse ==
    lastReq # NoReq => SecurityHeaders \subseteq resp.headers

\* C2: server.py answers a GET for an existing file under the root with 200
\* and that file's content, through the static-file responder, whatever the
\* launch directory and the form of the path
C2_ExistingFileServed ==
    (script = "server" /\ lastReq.method = "GET" /\ RootFileOf(lastReq.path) # "")
        => IsContentOf(resp, RootFileOf(lastReq.path)) /\ resp.delegated

\* C3: server.py answers a GET for a path that names no existing file under
\* the root with 404 "File not found" without invoking the static-file
\* responder, and stops serving only on an interrupt
C3_MissingFileNotFound ==
    (script = "server" /\ lastReq.method = "GET" /\ RootFileOf(lastReq.path) = "")
        => /\ IsNotFound(resp)
           /\ ~resp.delegated
           /\ pc = "serve" \/ (pc = "exited" /\ "serve" \in sigint)

\* C4: an interrupt delivered once the socket is bound stops the process:
\* the socket is closed, "Server stopped" is printed, the exit status is 0
C4_InterruptStops ==
    sigint \cap BoundPositions # {}
        => /\ pc = "exited"
           /\ listening = 0
           /\ exitStatus = 0
           /\ Printed(ServerStoppedLine)

\* C5: simple-server.py binds the lowest port that is not in use: every port
\* tried before the one it binds was held by another process
C5_LowestFreePort ==
    script = "simple"
        => \A i \in DOMAIN attempts :
              /\ attempts[i].port = RangeStart + (i - 1)
              /\ attempts[i].errno = 0
                    => \A j \in 1 .. (i - 1) : attempts[j].port \in inUse

\* C6: server.py, with port 8000 held by another process, never serves,
\* prints a line that mentions port 8000 and exits non-zero, on every platform
C6_PortInUseDiagnostic ==
    (script = "server" /\ PORT \in inUse)
        => /\ served = 0
           /\ listening = 0
           /\ pc = "exited"
           /\ exitStatus > 0
           /\ \E l \in Range(out) : l.port = PORT

\* C7: a bind error other than "address already in use" is fatal in both
\* scripts: no further port is tried, nothing is served, the error detail is
\* printed and the exit status is non-zero
C7_OtherBindErrorFatal ==
    \A i \in BindFaults :
        /\ i = Len(attempts)
        /\ served = 0
        /\ listening = 0
        /\ pc = "exited"
        /\ sigint = {} => /\ exitStatus > 0
                          /\ \E l \in Range(out) : l.errno = EACCES

\* C8: a failed browser launch (an exception or a False result) never stops
\* the server, and server.py prints the manual instruction for it, not
\* "Browser opened automatically"
C8_FailedLaunchDegrades ==
    launch \in {"false", "raised"}
        => /\ pc = "exited" => sigint \cap {"instructions", "serve"} # {}
           /\ pc # "exited" => listening # 0
           /\ script = "server"
                => Printed(ManualOpenLine) /\ ~Printed(BrowserOpenedLine)

\* C9: simple-server.py tries the ports in ascending order, each once; with
\* all ten in use it has served nothing, and a run that is not interrupted
\* ends with "No available ports found" and exit status 1
C9_ScanExhausted ==
    script = "simple"
        => /\ \A i \in DOMAIN attempts : attempts[i].port = RangeStart + (i - 1)
           /\ Len(attempts) <= RangeStop - RangeStart
           /\ inUse = Ports
                => /\ Len(attempts) = RangeStop - RangeStart
                   /\ served = 0
                   /\ listening = 0
                   /\ pc \in {"bind", "exited"}
                   /\ (pc = "exited" /\ sigint = {})
                        => exitStatus = 1 /\ Printed(NoPortsLine)

\* an uninterrupted run that found all ten ports in use and gave up
C9_Witness ==
    /\ script = "simple"
    /\ inUse = Ports
    /\ pc = "exited"
    /\ sigint = {}
    /\ exitStatus = 1

\* C10: in server.py a GET of "/" gets the response of a GET of
\* "/index.html": the content of index.html when it exists at the root, 404
\* when it does not
C10_RootIsIndex ==
    (script = "server" /\ pc = "serve")
        => LET r == BitShareHandler_do_GET(<<"/">>)
               i == BitShareHandler_do_GET(<<"/", "index.html">>)
           IN  /\ r = i
               /\ IF fs["root"]["index.html"] = "file"
                  THEN IsContentOf(r, "index.html")
                  ELSE IsNotFound(r)

====
